---- MODULE Spec2Model ----
(***************************************************************************)
(* A model of BirdView: the bookmark and credential stores of              *)
(* birdview/config.py and the response normalizer of birdview/client.py.   *)
(*                                                                         *)
(* Python values are represented as follows.                               *)
(*   str            a sequence of characters (one-character strings), or   *)
(*                  a TLA+ string where only equality is ever used         *)
(*   Optional[T]    None is <<>>, a value v is <<v>>                        *)
(*   list           a sequence                                             *)
(*   dict           a function on the set of its keys                      *)
(***************************************************************************)
EXTENDS Integers, Sequences, FiniteSets, TLC

VARIABLES
    file,       \* BOOKMARKS_FILE: [exists, content, complete, size]
    now,        \* the wall clock read by datetime.now()
    last,       \* the last completed bookmark call: its arguments and result
    pc,         \* per process: the position inside a bookmark call
    loc,        \* per process: the local variables of the call in progress
    credsCall,  \* the last load_creds call: the file read and the outcome
    parseCall,  \* the last _parse_tweets call: the response and the outcome
    ageCall,    \* the last Tweet.age call: the timestamp, the clock, the result
    countCall,  \* the last _format_count call: the number and the result
    frames,     \* the browse_tweets calls in progress, the outermost first
    exit,       \* how the outermost browse_tweets call ended, "none" before
    out,        \* what the last step of the browser put on the terminal
    step,       \* the last step of the browser: the input and the state before
    client      \* whether the browser was given an API client

\* the variables of the interactive browser
browseVars == <<frames, exit, out, step, client>>

\* the variables of the display layer (age, counts, browser)
viewVars == <<ageCall, countCall, browseVars>>

vars == <<file, now, last, pc, loc, credsCall, parseCall, viewVars>>

None == <<>>
Some(v) == <<v>>

Min(a, b) == IF a < b THEN a ELSE b

(***************************************************************************)
(* Bounds of the model.                                                    *)
(***************************************************************************)
MaxIds == 2         \* distinct tweet ids offered to the bookmark store
MaxClock == 1       \* the clock takes the values 0..MaxClock
MaxRefs == 2        \* references of a primary post
MaxUrls == 2        \* URL entities of a primary post
MaxData == 2        \* primary posts of a response
MaxTweets == 21     \* posts of the list the browser is started on
MaxReplies == 11    \* replies of a thread opened in the browser
MaxDepth == 2       \* browser sessions nested in one another

(***************************************************************************)
(* Bookmark store (config.py).                                             *)
(***************************************************************************)
TruncLen == 280

TweetIds == {ToString(110 + i) : i \in 1..MaxIds}

\* A text of n characters; character i is i % 7, so that prefixes, suffixes
\* and texts of different lengths are all distinguishable.
TextOfLen(n) == [i \in 1..n |-> i % 7]

\* author, text and url of a bookmark call, as the browser passes them: texts
\* shorter than, as long as and longer than the limit
Payloads == {
    [author |-> "alice", url |-> "https://x.com/alice/status/",
     text |-> TextOfLen(3)],
    [author |-> "carol", url |-> "https://x.com/carol/status/",
     text |-> TextOfLen(TruncLen)],
    [author |-> "alice", url |-> "https://x.com/alice/status/",
     text |-> TextOfLen(TruncLen + 1)],
    [author |-> "carol", url |-> "https://x.com/carol/status/",
     text |-> TextOfLen(TruncLen + 220)] }

\* text[:n]
Take(s, n) == SubSeq(s, 1, Min(Len(s), n))

\* datetime.now().isoformat()
IsoFormat(t) == ToString(t)

\* json.dumps(bookmarks, indent=2) of n records takes 2 + the sum over the
\* records of (RecordOverhead + len(text)) characters: every other field of a
\* record has a fixed width here (3-digit ids, 5-letter handles, isoformat).
RecordOverhead == 161

RECURSIVE Size(_)
Size(bookmarks) ==
    IF bookmarks = <<>> THEN 2
    ELSE RecordOverhead + Len(Head(bookmarks).text) + Size(Tail(bookmarks))

\* The file on disk. complete is FALSE when its bytes are not one whole JSON
\* document (json.load raises on it); size is its length in characters.
NoFile == [exists |-> FALSE, content |-> <<>>, complete |-> TRUE, size |-> 0]

\* load_bookmarks: the parsed file, or [] when the file does not exist
load_bookmarksAsEmpty(f) == <<>>

load_bookmarks(f) == IF ~f.exists THEN <<>> ELSE f.content

\* any(b["tweet_id"] == tweet_id for b in bookmarks)
HasTweetIdLastOnly(bookmarks, tweet_id) ==
    /\ Len(bookmarks) > 0
    /\ bookmarks[Len(bookmarks)].tweet_id = tweet_id

HasTweetId(bookmarks, tweet_id) ==
    \E i \in 1..Len(bookmarks) : bookmarks[i].tweet_id = tweet_id

\* the record save_bookmark appends
NewRecordUntruncated(tweet_id, author, text, url, t) ==
    [tweet_id |-> tweet_id, author |-> author, text |-> text,
     url |-> url, saved_at |-> IsoFormat(t)]

NewRecord(tweet_id, author, text, url, t) ==
    [tweet_id |-> tweet_id, author |-> author, text |-> Take(text, TruncLen),
     url |-> url, saved_at |-> IsoFormat(t)]

\* [b for b in bookmarks if b["tweet_id"] != tweet_id]
RECURSIVE FilterOut(_, _)
FilterOutDropLast(bookmarks, tweet_id) ==
    IF HasTweetId(bookmarks, tweet_id)
    THEN SubSeq(bookmarks, 1, Len(bookmarks) - 1)
    ELSE bookmarks

FilterOut(bookmarks, tweet_id) ==
    IF bookmarks = <<>> THEN <<>>
    ELSE IF Head(bookmarks).tweet_id # tweet_id
         THEN <<Head(bookmarks)>> \o FilterOut(Tail(bookmarks), tweet_id)
         ELSE FilterOut(Tail(bookmarks), tweet_id)

\* with open(BOOKMARKS_FILE, "w") as f: json.dump(bookmarks, f, indent=2)
Written(bookmarks) ==
    [exists |-> TRUE, content |-> bookmarks, complete |-> TRUE,
     size |-> Size(bookmarks)]

NoCall == [op |-> "none", tweet_id |-> "", author |-> "", text |-> <<>>,
           url |-> "", at |-> 0, ret |-> FALSE, before |-> <<>>]

\* save_bookmark(tweet_id, author, text, url), a whole call
save_bookmark(tweet_id, author, text, url) ==
    LET bookmarks == load_bookmarks(file) IN
    /\ file' = IF HasTweetId(bookmarks, tweet_id)
               THEN file
               ELSE Written(Append(bookmarks,
                                   NewRecord(tweet_id, author, text, url, now)))
    /\ last' = [op |-> "save", tweet_id |-> tweet_id, author |-> author,
                text |-> text, url |-> url, at |-> now, ret |-> FALSE,
                before |-> bookmarks]
    /\ UNCHANGED <<now, pc, loc, credsCall, parseCall>>
    /\ UNCHANGED viewVars

\* remove_bookmark(tweet_id), a whole call
remove_bookmark(tweet_id) ==
    LET bookmarks == load_bookmarks(file)
        new == FilterOut(bookmarks, tweet_id) IN
    /\ file' = IF Len(new) = Len(bookmarks) THEN file ELSE Written(new)
    /\ last' = [op |-> "remove", tweet_id |-> tweet_id, author |-> "",
                text |-> <<>>, url |-> "", at |-> now,
                ret |-> (Len(new) # Len(bookmarks)), before |-> bookmarks]
    /\ UNCHANGED <<now, pc, loc, credsCall, parseCall>>
    /\ UNCHANGED viewVars

\* time passes between calls
Tick ==
    /\ now < MaxClock
    /\ now' = now + 1
    /\ UNCHANGED <<file, last, pc, loc, credsCall, parseCall>>
    /\ UNCHANGED viewVars

Procs == {1, 2}

IdleLoc == [op |-> "none", tweet_id |-> "", bookmarks |-> <<>>, old |-> <<>>]

NoCredsCall == [called |-> FALSE]
NoParseCall == [called |-> FALSE]
NoAgeCall == [called |-> FALSE]
NoCountCall == [called |-> FALSE]

NoStep == [at |-> "start"]

\* no browser is running
BrowseIdle ==
    /\ frames = <<>>
    /\ exit = "none"
    /\ out = <<>>
    /\ step = NoStep
    /\ client = FALSE

\* nothing of the display layer has run
ViewIdle ==
    /\ ageCall = NoAgeCall
    /\ countCall = NoCountCall
    /\ BrowseIdle

StoreInit ==
    /\ file = NoFile
    /\ now = 0
    /\ last = NoCall
    /\ pc = [p \in Procs |-> "idle"]
    /\ loc = [p \in Procs |-> IdleLoc]

Init ==
    /\ StoreInit
    /\ credsCall = NoCredsCall
    /\ parseCall = NoParseCall
    /\ ViewIdle

Next ==
    \/ \E id \in TweetIds, pl \in Payloads :
           save_bookmark(id, pl.author, pl.text, pl.url)
    \/ \E id \in TweetIds : remove_bookmark(id)
    \/ Tick

Spec == Init /\ [][Next]_vars

(***************************************************************************)
(* The bookmark calls step by step: each process runs one call at a time,  *)
(* and a call that writes does so in two steps, open(BOOKMARKS_FILE, "w")  *)
(* and json.dump + close. A process may be killed between the two.         *)
(***************************************************************************)
Unreadable(f) == f.exists /\ ~f.complete

\* save_bookmark up to the open: ensure_app_dir, load_bookmarks, the
\* duplicate test and the append
IOSaveBegin(p, tweet_id, author, text, url) ==
    /\ pc[p] = "idle"
    /\ IF Unreadable(file)
       THEN \* json.load raises JSONDecodeError
            /\ loc' = [loc EXCEPT ![p] = [IdleLoc EXCEPT !.op = "raised",
                                                          !.tweet_id = tweet_id]]
            /\ pc' = pc
       ELSE LET bookmarks == load_bookmarks(file) IN
            IF HasTweetId(bookmarks, tweet_id)
            THEN /\ loc' = [loc EXCEPT ![p] =
                               [op |-> "returned", tweet_id |-> tweet_id,
                                bookmarks |-> bookmarks, old |-> bookmarks]]
                 /\ pc' = pc
            ELSE /\ loc' = [loc EXCEPT ![p] =
                               [op |-> "save", tweet_id |-> tweet_id,
                                bookmarks |-> Append(bookmarks,
                                    NewRecord(tweet_id, author, text, url, now)),
                                old |-> bookmarks]]
                 /\ pc' = [pc EXCEPT ![p] = "open"]
    /\ UNCHANGED <<file, now, last, credsCall, parseCall>>
    /\ UNCHANGED viewVars

\* remove_bookmark up to the open: load_bookmarks, the filter, the length test
IORemoveBegin(p, tweet_id) ==
    /\ pc[p] = "idle"
    /\ IF Unreadable(file)
       THEN /\ loc' = [loc EXCEPT ![p] = [IdleLoc EXCEPT !.op = "raised",
                                                          !.tweet_id = tweet_id]]
            /\ pc' = pc
       ELSE LET bookmarks == load_bookmarks(file)
                new == FilterOut(bookmarks, tweet_id) IN
            IF Len(new) = Len(bookmarks)
            THEN /\ loc' = [loc EXCEPT ![p] =
                               [op |-> "returned", tweet_id |-> tweet_id,
                                bookmarks |-> bookmarks, old |-> bookmarks]]
                 /\ pc' = pc
            ELSE /\ loc' = [loc EXCEPT ![p] =
                               [op |-> "remove", tweet_id |-> tweet_id,
                                bookmarks |-> new, old |-> bookmarks]]
                 /\ pc' = [pc EXCEPT ![p] = "open"]
    /\ UNCHANGED <<file, now, last, credsCall, parseCall>>
    /\ UNCHANGED viewVars

\* open(BOOKMARKS_FILE, "w"): the file is created or truncated to no bytes
IOOpen(p) ==
    /\ pc[p] = "open"
    /\ file' = [exists |-> TRUE, content |-> <<>>, complete |-> FALSE, size |-> 0]
    /\ pc' = [pc EXCEPT ![p] = "dump"]
    /\ UNCHANGED <<now, last, loc, credsCall, parseCall>>
    /\ UNCHANGED viewVars

\* json.dump and the close that flushes it: the document is written from
\* offset 0 over whatever bytes the file holds by then; bytes beyond the
\* document's end (written by another process since this one's open) stay
IODump(p) ==
    /\ pc[p] = "dump"
    /\ file' = IF file.size <= Size(loc[p].bookmarks)
               THEN Written(loc[p].bookmarks)
               ELSE [exists |-> TRUE, content |-> loc[p].bookmarks,
                     complete |-> FALSE, size |-> file.size]
    /\ pc' = [pc EXCEPT ![p] = "idle"]
    /\ loc' = [loc EXCEPT ![p].op = "returned"]
    /\ UNCHANGED <<now, last, credsCall, parseCall>>
    /\ UNCHANGED viewVars

\* the process is killed inside the call
IOCrash(p) ==
    /\ pc[p] \in {"open", "dump"}
    /\ pc' = [pc EXCEPT ![p] = "idle"]
    /\ loc' = [loc EXCEPT ![p].op = "killed"]
    /\ UNCHANGED <<file, now, last, credsCall, parseCall>>
    /\ UNCHANGED viewVars

\* the bookmark the browser saves for a tweet id: a short or a long text
IOTexts == {TextOfLen(3), TextOfLen(TruncLen + 1)}
IOPayload == [author |-> "alice", url |-> "https://x.com/alice/status/"]

NextIO ==
    \/ \E p \in Procs, id \in TweetIds, text \in IOTexts :
           IOSaveBegin(p, id, IOPayload.author, text, IOPayload.url)
    \/ \E p \in Procs, id \in TweetIds : IORemoveBegin(p, id)
    \/ \E p \in Procs : IOOpen(p)
    \/ \E p \in Procs : IODump(p)
    \/ \E p \in Procs : IOCrash(p)

SpecIO == Init /\ [][NextIO]_vars

(***************************************************************************)
(* Two processes, each running one save_bookmark call for a tweet id of    *)
(* its own that is not stored yet; the steps of the two calls interleave   *)
(* freely and neither process is killed.                                   *)
(***************************************************************************)
\* the file before the two calls: absent, an empty list, or one bookmark
RaceStores ==
    {NoFile, Written(<<>>)}
    \cup {Written(<<NewRecord(ToString(110), pl.author, pl.text, pl.url, 0)>>) :
              pl \in Payloads}

InitRace ==
    /\ file \in RaceStores
    /\ now = 0
    /\ last = [NoCall EXCEPT !.before = file.content]
    /\ pc = [p \in Procs |-> "idle"]
    /\ \E a, b \in TweetIds :
           /\ a # b
           /\ loc = [p \in Procs |->
                        [IdleLoc EXCEPT !.op = "pending",
                                        !.tweet_id = IF p = 1 THEN a ELSE b]]
    /\ credsCall = NoCredsCall
    /\ parseCall = NoParseCall
    /\ ViewIdle

\* process p enters its save_bookmark call
RaceSave(p) ==
    /\ loc[p].op = "pending"
    /\ \E pl \in Payloads :
           IOSaveBegin(p, loc[p].tweet_id, pl.author, pl.text, pl.url)

NextRace ==
    \/ \E p \in Procs : RaceSave(p)
    \/ \E p \in Procs : IOOpen(p)
    \/ \E p \in Procs : IODump(p)

SpecRace == InitRace /\ [][NextRace]_vars

(***************************************************************************)
(* Credential store (config.py).                                           *)
(***************************************************************************)
REQUIRED_KEYS == <<"consumer_key", "consumer_secret", "bearer_token",
                   "access_token", "access_token_secret">>

RequiredKeySet == {REQUIRED_KEYS[i] : i \in 1..Len(REQUIRED_KEYS)}

\* The credentials file: absent, or a JSON object holding some of the keys,
\* each with an empty or a non-empty string.
CredsFiles ==
    {[exists |-> FALSE, data |-> <<>>]} \cup
    {[exists |-> TRUE, data |-> d] :
         d \in UNION {[ks -> {"", "s3cret"}] : ks \in SUBSET RequiredKeySet}}

\* not data.get(k)
Falsy(data, k) == k \notin DOMAIN data \/ data[k] = ""

\* [k for k in REQUIRED_KEYS if not data.get(k)]
RECURSIVE MissingFrom(_, _)
MissingFrom(keys, data) ==
    IF keys = <<>> THEN <<>>
    ELSE IF Falsy(data, Head(keys))
         THEN <<Head(keys)>> \o MissingFrom(Tail(keys), data)
         ELSE MissingFrom(Tail(keys), data)

MissingKeysFirstOnly(data) ==
    LET all == MissingFrom(REQUIRED_KEYS, data) IN
    IF all = <<>> THEN <<>> ELSE <<Head(all)>>

MissingKeys(data) == MissingFrom(REQUIRED_KEYS, data)

NoMessage == [head |-> "", missing |-> <<>>, required |-> <<>>]

\* The outcome of load_creds on file f: SystemExit with its message, or the
\* TwitterCreds object.
LoadCredsOutcome(f) ==
    IF ~f.exists
    THEN [raised |-> TRUE, creds |-> None,
          message |-> [head |-> "Credentials not found", missing |-> <<>>,
                       required |-> REQUIRED_KEYS]]
    ELSE LET missing == MissingKeys(f.data) IN
         IF missing # <<>>
         THEN [raised |-> TRUE, creds |-> None,
               message |-> [head |-> "Missing keys", missing |-> missing,
                            required |-> REQUIRED_KEYS]]
         ELSE [raised |-> FALSE, message |-> NoMessage,
               creds |-> Some([k \in RequiredKeySet |-> f.data[k]])]

\* load_creds(), a whole call, on the credentials file f
load_creds(f) ==
    /\ credsCall' = [called |-> TRUE, file |-> f, out |-> LoadCredsOutcome(f)]
    /\ UNCHANGED <<file, now, last, pc, loc, parseCall>>
    /\ UNCHANGED viewVars

NextCreds == \E f \in CredsFiles : load_creds(f)

SpecCreds == Init /\ [][NextCreds]_vars

(***************************************************************************)
(* Response normalizer (client.py).                                        *)
(*                                                                         *)
(* A text is a sequence of tokens, each a word or an HTML entity; a URL is *)
(* a sequence of characters. A raw post (tweepy.Tweet) is a record whose   *)
(* optional attributes are Optional values; a user is [id, username,       *)
(* name]; a reference is [type, id].                                       *)
(***************************************************************************)
EmptyDict == [k \in {} |-> 0]

\* d.get(k, default) on a dict
DictGet(d, k, default) == IF k \in DOMAIN d THEN d[k] ELSE default

\* bool(x) of an Optional dict, list or text: neither None nor empty
TruthyColl(x) == x # None /\ DOMAIN x[1] # {}

\* bool(x) of an Optional int
TruthyInt(x) == x # None /\ x[1] # 0

\* html.unescape, entity by entity
UnescapeToken(tok) ==
    CASE tok = "&amp;" -> "&"
      [] tok = "&lt;" -> "<"
      [] tok = "&gt;" -> ">"
      [] tok = "&quot;" -> "\""
      [] OTHER -> tok

Unescape(text) == [i \in 1..Len(text) |-> UnescapeToken(text[i])]

\* BirdViewClient._full_text
full_text(tweet) ==
    LET note == tweet.note_tweet IN
    IF TruthyColl(note) /\ DictGet(note[1], "text", <<>>) # <<>>
    THEN Unescape(note[1]["text"])
    ELSE Unescape(tweet.text)

\* a side table of _parse_tweets: for x in items: table[x.id] = x
RECURSIVE SideTable(_, _)
SideTable(items, table) ==
    IF items = <<>> THEN table
    ELSE LET x == Head(items) IN
         SideTable(Tail(items),
                   [id \in DOMAIN table \cup {x.id} |->
                        IF id = x.id THEN x ELSE table[id]])

\* users / ref_tweets of _parse_tweets
IncludedTable(includes, key) ==
    IF TruthyColl(includes)
    THEN SideTable(DictGet(includes[1], key, <<>>), EmptyDict)
    ELSE EmptyDict

\* table.get(key) for an Optional key: an Optional entry
Lookup(table, key) ==
    IF key # None /\ key[1] \in DOMAIN table THEN Some(table[key[1]]) ELSE None

\* t.public_metrics or {}
MetricsNoFallback(public_metrics) == public_metrics

MetricsOrEmpty(public_metrics) ==
    IF TruthyColl(public_metrics) THEN public_metrics ELSE Some(EmptyDict)

\* t.referenced_tweets or []
RefsOrEmpty(referenced_tweets) ==
    IF TruthyColl(referenced_tweets) THEN referenced_tweets ELSE Some(<<>>)

\* any(r.type == kind for r in refs)
AnyOfType(refs, kind) == \E i \in 1..Len(refs) : refs[i].type = kind

\* next((r for r in refs if r.type == kind), None)
RECURSIVE FirstOfType(_, _)
FirstOfType(refs, kind) ==
    IF refs = <<>> THEN None
    ELSE IF Head(refs).type = kind THEN Some(Head(refs))
         ELSE FirstOfType(Tail(refs), kind)

\* sub in s, for character sequences
Contains(s, sub) ==
    \E i \in 1..(Len(s) - Len(sub) + 1) : SubSeq(s, i, i + Len(sub) - 1) = sub

TwitterCom == <<"t", "w", "i", "t", "t", "e", "r", ".", "c", "o", "m">>
XCom == <<"x", ".", "c", "o", "m">>

\* not ("twitter.com" not in expanded and "x.com" not in expanded)
IsSelfReferenceBothOnly(expanded) ==
    Contains(expanded, TwitterCom) /\ Contains(expanded, XCom)

IsSelfReference(expanded) ==
    ~(~Contains(expanded, TwitterCom) /\ ~Contains(expanded, XCom))

\* u.get("expanded_url", u.get("url", ""))
ExpandedOf(u) == DictGet(u, "expanded_url", DictGet(u, "url", <<>>))

\* the loop over t.entities["urls"]
RECURSIVE UrlLoop(_, _)
UrlLoop(entries, urls) ==
    IF entries = <<>> THEN urls
    ELSE LET expanded == ExpandedOf(Head(entries)) IN
         UrlLoop(Tail(entries),
                 IF IsSelfReference(expanded) THEN urls
                 ELSE Append(urls, expanded))

\* urls of a primary post
ExtractUrls(entities) ==
    IF TruthyColl(entities) /\ "urls" \in DOMAIN entities[1]
    THEN UrlLoop(entities[1]["urls"], <<>>)
    ELSE <<>>

\* str(x)
Str(x) == ToString(x)

\* the Tweet dataclass, with its defaults
Tweet(id, text, author_handle, author_name, created_at, likes, retweets, replies, quotes, is_retweet, is_reply, is_quote, retweeted_by, quoted_tweet, conversation_id, urls) ==
    [id |-> id, text |-> text, author_handle |-> author_handle,
     author_name |-> author_name, created_at |-> created_at, likes |-> likes,
     retweets |-> retweets, replies |-> replies, quotes |-> quotes,
     is_retweet |-> is_retweet, is_reply |-> is_reply, is_quote |-> is_quote,
     retweeted_by |-> retweeted_by, quoted_tweet |-> quoted_tweet,
     conversation_id |-> conversation_id, urls |-> urls]

\* Tweet.url
Url(tweet) == <<"https://x.com/", tweet.author_handle, "/status/", tweet.id>>

\* the nested Tweet built for a quoted post qt
QuotedTweet(qt, users) ==
    LET qt_author == Lookup(users, qt.author_id)
        qm == IF TruthyColl(qt.public_metrics) THEN qt.public_metrics[1]
              ELSE EmptyDict IN
    Tweet(Str(qt.id), full_text(qt),
          IF qt_author # None THEN qt_author[1].username ELSE "unknown",
          IF qt_author # None THEN qt_author[1].name ELSE "Unknown",
          qt.created_at,
          DictGet(qm, "like_count", 0), DictGet(qm, "retweet_count", 0),
          DictGet(qm, "reply_count", 0), 0,
          FALSE, FALSE, FALSE, None, None, None, <<>>)

\* One iteration of the loop of _parse_tweets over the primary post t:
\* [raised, tweet]. raised says that the iteration dereferences None (the
\* metrics or the reference list), which raises in Python.
ParseOne(t, users, ref_tweets) ==
    LET author == Lookup(users, t.author_id)
        handle == IF author # None THEN author[1].username ELSE "unknown"
        name == IF author # None THEN author[1].name ELSE "Unknown"
        metrics == MetricsOrEmpty(t.public_metrics)
        refsOpt == RefsOrEmpty(t.referenced_tweets)
        refs == IF refsOpt = None THEN <<>> ELSE refsOpt[1]
        is_rt == AnyOfType(refs, "retweeted")
        is_reply == AnyOfType(refs, "replied_to")
        is_quote == AnyOfType(refs, "quoted")
        rt_ref == FirstOfType(refs, "retweeted")
        resolved == is_rt /\ rt_ref # None /\ rt_ref[1].id \in DOMAIN ref_tweets
        orig == ref_tweets[rt_ref[1].id]
        orig_author == Lookup(users, orig.author_id)
        retweeted_by == IF is_rt THEN Some(handle) ELSE None
        actual_text == IF resolved THEN full_text(orig) ELSE full_text(t)
        actual_handle == IF resolved /\ orig_author # None
                         THEN orig_author[1].username ELSE handle
        actual_name == IF resolved /\ orig_author # None
                       THEN orig_author[1].name ELSE name
        actual_metrics == IF resolved /\ TruthyColl(orig.public_metrics)
                          THEN orig.public_metrics ELSE metrics
        actual_id == Str(IF resolved THEN orig.id ELSE t.id)
        actual_created == IF resolved /\ orig.created_at # None
                          THEN orig.created_at ELSE t.created_at
        urls == ExtractUrls(t.entities)
        qt_ref == FirstOfType(refs, "quoted")
        quoted_tweet ==
            IF is_quote /\ qt_ref # None /\ qt_ref[1].id \in DOMAIN ref_tweets
            THEN Some(QuotedTweet(ref_tweets[qt_ref[1].id], users))
            ELSE None
        raised == refsOpt = None \/ actual_metrics = None
        am == IF actual_metrics = None THEN EmptyDict ELSE actual_metrics[1]
    IN  [raised |-> raised,
         tweet |-> Tweet(actual_id, actual_text, actual_handle, actual_name,
                         actual_created,
                         DictGet(am, "like_count", 0),
                         DictGet(am, "retweet_count", 0),
                         DictGet(am, "reply_count", 0),
                         DictGet(am, "quote_count", 0),
                         is_rt, is_reply, is_quote, retweeted_by, quoted_tweet,
                         IF TruthyInt(t.conversation_id)
                         THEN Some(Str(t.conversation_id[1])) ELSE None,
                         urls)]

\* tweets.append(...)
PrependTweet(tweets, tweet) == <<tweet>> \o tweets

AppendTweet(tweets, tweet) == Append(tweets, tweet)

\* for t in data: ... tweets.append(Tweet(...))
RECURSIVE ParseLoop(_, _, _, _)
ParseLoop(data, users, ref_tweets, tweets) ==
    IF data = <<>> THEN [raised |-> FALSE, tweets |-> tweets]
    ELSE LET one == ParseOne(Head(data), users, ref_tweets) IN
         IF one.raised THEN [raised |-> TRUE, tweets |-> <<>>]
         ELSE ParseLoop(Tail(data), users, ref_tweets,
                        AppendTweet(tweets, one.tweet))

\* BirdViewClient._parse_tweets. response.data is [kind, items]: kind "none"
\* for None, "single" for one object (items holds it), "list" for a list.
parse_tweets(response) ==
    IF response.data.kind = "none" \/ response.data.items = <<>>
    THEN [raised |-> FALSE, tweets |-> <<>>]
    ELSE ParseLoop(response.data.items,
                   IncludedTable(response.includes, "users"),
                   IncludedTable(response.includes, "tweets"),
                   <<>>)

(***************************************************************************)
(* The responses the normalizer is run on.                                 *)
(***************************************************************************)
RawPost(id, text, author_id, public_metrics, referenced_tweets, entities, conversation_id, created_at, note_tweet) ==
    [id |-> id, text |-> text, author_id |-> author_id,
     public_metrics |-> public_metrics,
     referenced_tweets |-> referenced_tweets, entities |-> entities,
     conversation_id |-> conversation_id, created_at |-> created_at,
     note_tweet |-> note_tweet]

Ref(type, id) == [type |-> type, id |-> id]

Metrics(l, rt, rp, q) ==
    [like_count |-> l, retweet_count |-> rt, reply_count |-> rp,
     quote_count |-> q]

UAlice == [id |-> 1, username |-> "alice", name |-> "Alice"]
UBob == [id |-> 2, username |-> "bob", name |-> "Bob"]
UCarol == [id |-> 3, username |-> "carol", name |-> "Carol"]

TxtWrapper == <<"RT", "@bob:", "Tom", "&amp;", "Jerry">>
TxtOrig == <<"Tom", "&amp;", "Jerry", "&lt;", "3">>
TxtQuoted == <<"a", "&gt;", "b">>
TxtNote == <<"Tom", "&amp;", "Jerry", "at", "full", "length">>
TxtPlain == <<"Hello", "world">>

UrlExample == <<"h", "t", "t", "p", "s", ":", "/", "/", "e", "x", "a", "m", "p", "l", "e", ".", "c", "o", "m", "/", "a", "r", "t", "i", "c", "l", "e">>
UrlPermalink == <<"h", "t", "t", "p", "s", ":", "/", "/", "x", ".", "c", "o", "m", "/", "a", "l", "i", "c", "e", "/", "s", "t", "a", "t", "u", "s", "/", "1", "0", "0">>
UrlOldPermalink == <<"h", "t", "t", "p", "s", ":", "/", "/", "t", "w", "i", "t", "t", "e", "r", ".", "c", "o", "m", "/", "b", "o", "b", "/", "s", "t", "a", "t", "u", "s", "/", "5">>
UrlNetflix == <<"h", "t", "t", "p", "s", ":", "/", "/", "n", "e", "t", "f", "l", "i", "x", ".", "c", "o", "m", "/", "t", "i", "t", "l", "e", "/", "7">>
UrlShort == <<"h", "t", "t", "p", "s", ":", "/", "/", "t", ".", "c", "o", "/", "a", "b", "c">>

MetricsWrapper == Metrics(0, 7, 0, 0)
MetricsOrig == Metrics(42, 7, 3, 1)

\* the original of a retweet, with the given public_metrics
Orig200(public_metrics) ==
    RawPost(200, TxtOrig, Some(2), public_metrics, None, None, Some(200),
            Some(3), None)

Orig201 ==
    RawPost(201, TxtPlain, Some(3), Some(Metrics(5, 0, 0, 0)), None, None,
            Some(201), None, None)

Quoted300 ==
    RawPost(300, TxtQuoted, Some(3), Some(Metrics(9, 8, 6, 4)),
            Some(<<Ref("quoted", 200)>>), None, Some(300), Some(2),
            Some([text |-> TxtNote]))

Response(kind, items, includes) ==
    [data |-> [kind |-> kind, items |-> items], includes |-> includes]

Includes(keys, users, tweets) ==
    Some([k \in keys |-> IF k = "users" THEN users ELSE tweets])

\* the members of xs, in this order, that are in the set keep
RECURSIVE Among(_, _)
Among(xs, keep) ==
    IF xs = <<>> THEN <<>>
    ELSE IF Head(xs) \in keep THEN <<Head(xs)>> \o Among(Tail(xs), keep)
         ELSE Among(Tail(xs), keep)

SeqsUpTo(S, n) == UNION {[1..k -> S] : k \in 0..n}

\* 1. One post that is a retweet and a quote, with every combination of its
\*    optional parts absent.
OptionalParts == {"includes", "users_key", "tweets_key", "author", "metrics",
                  "refs", "ref_post", "entities", "urls_key", "expanded_url",
                  "created_at", "note", "conv"}

SparsePost(absent) ==
    RawPost(100, TxtWrapper, Some(1),
            IF "metrics" \in absent THEN None ELSE Some(MetricsWrapper),
            IF "refs" \in absent THEN None
            ELSE Some(<<Ref("retweeted", 200), Ref("quoted", 300)>>),
            IF "entities" \in absent THEN None
            ELSE IF "urls_key" \in absent THEN Some([hashtags |-> <<>>])
            ELSE IF "expanded_url" \in absent
                 THEN Some([urls |-> <<[url |-> UrlShort]>>])
                 ELSE Some([urls |-> <<[expanded_url |-> UrlExample,
                                       url |-> UrlShort]>>]),
            IF "conv" \in absent THEN None ELSE Some(100),
            IF "created_at" \in absent THEN None ELSE Some(9),
            IF "note" \in absent THEN None ELSE Some([text |-> TxtNote]))

SparseIncludes(absent) ==
    IF "includes" \in absent THEN None
    ELSE Includes({k \in {"users", "tweets"} :
                       /\ k = "users" => "users_key" \notin absent
                       /\ k = "tweets" => "tweets_key" \notin absent},
                  IF "author" \in absent THEN <<UBob>> ELSE <<UAlice, UBob>>,
                  IF "ref_post" \in absent THEN <<>>
                  ELSE <<Orig200(Some(MetricsOrig)), Quoted300>>)

SparseResponses ==
    {Response(kind, <<SparsePost(absent)>>, SparseIncludes(absent)) :
         kind \in {"single", "list"}, absent \in SUBSET OptionalParts}

\* 2. One post with every list of references, over every side payload.
RefChoices == {Ref("retweeted", 200), Ref("retweeted", 201),
               Ref("replied_to", 150), Ref("quoted", 300)}

ReferringPost(refs) ==
    RawPost(100, TxtWrapper, Some(1), Some(MetricsWrapper), Some(refs), None,
            Some(100), Some(9), None)

ReferenceResponses ==
    {Response("list", <<ReferringPost(refs)>>,
              Includes({"users", "tweets"},
                       Among(<<UAlice, UBob, UCarol>>, us),
                       Among(<<Orig200(pm), Orig201, Quoted300>>,
                             {Orig200(pm)} \cup ts))) :
         refs \in SeqsUpTo(RefChoices, MaxRefs),
         us \in SUBSET {UAlice, UBob, UCarol},
         ts \in SUBSET {Orig201, Quoted300},
         pm \in {None, Some(EmptyDict), Some(MetricsOrig)}}
    \cup
    {Response("list", <<ReferringPost(refs)>>,
              Includes({"users", "tweets"},
                       Among(<<UAlice, UBob, UCarol>>, us),
                       Among(<<Orig201, Quoted300>>, ts))) :
         refs \in SeqsUpTo(RefChoices, MaxRefs),
         us \in SUBSET {UAlice, UBob, UCarol},
         ts \in SUBSET {Orig201, Quoted300}}

\* 3. One post with every list of URL entities.
UrlEntries ==
    {[expanded_url |-> u] : u \in {UrlExample, UrlPermalink, UrlOldPermalink,
                                   UrlNetflix}}
    \cup {[expanded_url |-> UrlExample, url |-> UrlShort],
          [expanded_url |-> UrlPermalink, url |-> UrlShort],
          [url |-> UrlShort], [display_url |-> UrlExample]}

LinkingPost(entries) ==
    RawPost(100, TxtPlain, Some(1), Some(MetricsWrapper), None,
            Some([urls |-> entries]), Some(100), Some(9), None)

UrlResponses ==
    {Response("list", <<LinkingPost(entries)>>,
              Includes({"users"}, <<UAlice>>, <<>>)) :
         entries \in SeqsUpTo(UrlEntries, MaxUrls)}

\* 4. No data, one object, and every list of primary posts.
PrimaryPosts ==
    {RawPost(101, TxtPlain, Some(1), Some(Metrics(1, 0, 0, 0)), None, None,
             Some(101), Some(4), None),
     RawPost(102, TxtWrapper, Some(2), Some(MetricsWrapper),
             Some(<<Ref("retweeted", 200)>>), None, Some(102), Some(5), None),
     RawPost(103, TxtQuoted, Some(4), None, Some(<<Ref("replied_to", 101)>>),
             None, Some(101), Some(6), None)}

FullIncludes ==
    Includes({"users", "tweets"}, <<UAlice, UBob, UCarol>>,
             <<Orig200(Some(MetricsOrig)), Quoted300>>)

ListResponses ==
    {Response("none", <<>>, inc) : inc \in {None, FullIncludes}}
    \cup {Response("single", <<t>>, FullIncludes) : t \in PrimaryPosts}
    \cup {Response("list", items, FullIncludes) :
              items \in SeqsUpTo(PrimaryPosts, MaxData)}

Responses ==
    SparseResponses \cup ReferenceResponses \cup UrlResponses \cup ListResponses

NoOutcome == [raised |-> FALSE, tweets |-> <<>>]

InitParse ==
    /\ StoreInit
    /\ credsCall = NoCredsCall
    /\ ViewIdle
    /\ \E r \in Responses :
           parseCall = [called |-> FALSE, response |-> r, out |-> NoOutcome]

\* _parse_tweets(response), a whole call
ParseTweets ==
    /\ ~parseCall.called
    /\ parseCall' = [parseCall EXCEPT !.called = TRUE,
                                      !.out = parse_tweets(parseCall.response)]
    /\ UNCHANGED <<file, now, last, pc, loc, credsCall>>
    /\ UNCHANGED viewVars

NextParse == ParseTweets

SpecParse == InitParse /\ [][NextParse]_vars

(***************************************************************************)
(* Tweet.age (client.py). A datetime is the record of its calendar fields, *)
(* as in Python; created_at and the clock are both in UTC.                 *)
(***************************************************************************)
DateTime(year, month, day, hour, minute, second, microsecond) == [year |-> year, month |-> month, day |-> day, hour |-> hour, minute |-> minute, second |-> second, microsecond |-> microsecond]

IsLeap(year) == year % 4 = 0 /\ (year % 100 # 0 \/ year % 400 = 0)

DaysInMonth(year, month) ==
    IF month = 2 /\ IsLeap(year) THEN 29
    ELSE <<31, 28, 31, 30, 31, 30, 31, 31, 30, 31, 30, 31>>[month]

RECURSIVE DaysBeforeMonth(_, _)
DaysBeforeMonth(year, month) ==
    IF month = 1 THEN 0
    ELSE DaysBeforeMonth(year, month - 1) + DaysInMonth(year, month - 1)

DaysBeforeYear(year) ==
    LET y == year - 1 IN y * 365 + (y \div 4) - (y \div 100) + (y \div 400)

\* datetime.toordinal(): the number of the day, counted from 0001-01-01
ToOrdinal(dt) ==
    DaysBeforeYear(dt.year) + DaysBeforeMonth(dt.year, dt.month) + dt.day

\* a - b of two datetimes, as the timedelta [seconds, microseconds] of whole
\* seconds and of microseconds, the latter in -999999..999999
Minus(a, b) ==
    [seconds |-> (ToOrdinal(a) - ToOrdinal(b)) * 86400
                 + (a.hour - b.hour) * 3600 + (a.minute - b.minute) * 60
                 + (a.second - b.second),
     microseconds |-> a.microsecond - b.microsecond]

\* int(delta.total_seconds()): the fraction is cut off towards zero
IntTotalSeconds(delta) ==
    IF delta.seconds > 0 /\ delta.microseconds < 0 THEN delta.seconds - 1
    ELSE IF delta.seconds < 0 /\ delta.microseconds > 0 THEN delta.seconds + 1
    ELSE delta.seconds

MonthAbbr ==
    <<"Jan", "Feb", "Mar", "Apr", "May", "Jun",
      "Jul", "Aug", "Sep", "Oct", "Nov", "Dec">>

\* created_at.strftime("%b %d")
StrftimeMonDay(dt) ==
    MonthAbbr[dt.month] \o " "
        \o (IF dt.day < 10 THEN "0" \o ToString(dt.day) ELSE ToString(dt.day))

\* Tweet.age, for the timestamp created_at (None or a datetime) when
\* datetime.now(timezone.utc) returns utcnow
ageHoursInclusive(created_at, utcnow) ==
    IF created_at = None THEN ""
    ELSE LET secs == IntTotalSeconds(Minus(utcnow, created_at[1]))
             mins == secs \div 60
             hours == mins \div 60
             days == hours \div 24 IN
         IF secs < 60 THEN ToString(secs) \o "s"
         ELSE IF mins < 60 THEN ToString(mins) \o "m"
         ELSE IF hours <= 24 THEN ToString(hours) \o "h"
         ELSE IF days < 30 THEN ToString(days) \o "d"
         ELSE StrftimeMonDay(created_at[1])

age(created_at, utcnow) ==
    IF created_at = None THEN ""
    ELSE LET secs == IntTotalSeconds(Minus(utcnow, created_at[1]))
             mins == secs \div 60
             hours == mins \div 60
             days == hours \div 24 IN
         IF secs < 60 THEN ToString(secs) \o "s"
         ELSE IF mins < 60 THEN ToString(mins) \o "m"
         ELSE IF hours < 24 THEN ToString(hours) \o "h"
         ELSE IF days < 30 THEN ToString(days) \o "d"
         ELSE StrftimeMonDay(created_at[1])

\* The clock readings and the timestamps of the posts shown: days that lie
\* 0, 1, 7, 29, 30, 31 and more days apart (across a leap day and a new
\* year), times of day that lie seconds, minutes and hours apart.
AgeDays ==
    {<<2025, 4, 1>>, <<2025, 3, 31>>, <<2025, 3, 30>>, <<2025, 3, 24>>,
     <<2025, 3, 2>>, <<2025, 3, 1>>, <<2025, 2, 28>>, <<2024, 3, 1>>,
     <<2024, 2, 29>>, <<2024, 2, 1>>, <<2024, 1, 31>>, <<2024, 1, 30>>,
     <<2023, 12, 31>>}

AgeTimes ==
    {<<0, 0, 0>>, <<0, 0, 29>>, <<0, 0, 30>>, <<0, 0, 31>>, <<9, 0, 0>>,
     <<10, 59, 59>>, <<11, 0, 0>>, <<11, 0, 1>>, <<11, 55, 0>>,
     <<11, 58, 59>>, <<11, 59, 0>>, <<11, 59, 1>>, <<11, 59, 59>>,
     <<12, 0, 0>>, <<12, 0, 1>>, <<23, 59, 59>>}

AgeMicros == {0, 500000, 999999}

AgeTimestamps ==
    {DateTime(d[1], d[2], d[3], t[1], t[2], t[3], us) :
         d \in AgeDays, t \in AgeTimes, us \in AgeMicros}

AgeClocks ==
    {DateTime(2025, 3, 31, 12, 0, 0, 0), DateTime(2024, 3, 1, 0, 0, 30, 500000)}

InitAge ==
    /\ StoreInit
    /\ credsCall = NoCredsCall
    /\ parseCall = NoParseCall
    /\ countCall = NoCountCall
    /\ BrowseIdle
    /\ \E c \in {None} \cup {Some(dt) : dt \in AgeTimestamps}, n \in AgeClocks :
           ageCall = [called |-> FALSE, created_at |-> c, now |-> n, out |-> ""]

\* tweet.age, a whole evaluation of the property
Age ==
    /\ ~ageCall.called
    /\ ageCall' = [ageCall EXCEPT !.called = TRUE,
                                  !.out = age(ageCall.created_at, ageCall.now)]
    /\ UNCHANGED <<file, now, last, pc, loc, credsCall, parseCall, countCall>>
    /\ UNCHANGED browseVars

NextAge == Age

SpecAge == InitAge /\ [][NextAge]_vars

(***************************************************************************)
(* _format_count (render.py).                                              *)
(***************************************************************************)
RECURSIVE Log2Floor(_)
Log2Floor(k) == IF k < 2 THEN 0 ELSE 1 + Log2Floor(k \div 2)

RECURSIVE Pow2Mod5(_)
Pow2Mod5(e) == IF e = 0 THEN 1 ELSE (2 * Pow2Mod5(e - 1)) % 5

\* Whether the float n / d of a quotient that lies exactly halfway between
\* two one-decimal values, n / d = p / 20 with p odd and n >= d, is below
\* (-1), at (0) or above (1) that halfway point. The float is the quotient
\* rounded to 53 significant bits, p * 2 ^ (50 - j) / 5 rounded to an
\* integer for the j with 2 ^ j <= n / d < 2 ^ (j + 1); the remainder of
\* that division by 5 tells the direction.
FloatSideOfHalf(p, n, d) ==
    LET j == Log2Floor(n \div d)
        rem == ((p % 5) * Pow2Mod5(50 - j)) % 5 IN
    IF rem = 0 THEN 0 ELSE IF rem < 3 THEN -1 ELSE 1

\* f"{n / d:.1f}" for n >= d, d a multiple of 10: the float n / d printed
\* with one decimal, the decimal nearest to the float and on a float that is
\* exactly halfway the one with the even last digit
FormatOneDecimal(n, d) ==
    LET unit == d \div 10
        lower == n \div unit
        twice == 2 * (n % unit)
        side == IF twice # unit THEN 0 ELSE FloatSideOfHalf(2 * lower + 1, n, d)
        tenths == IF twice < unit THEN lower
                  ELSE IF twice > unit THEN lower + 1
                  ELSE IF side < 0 THEN lower
                  ELSE IF side > 0 THEN lower + 1
                  ELSE IF lower % 2 = 0 THEN lower ELSE lower + 1 IN
    ToString(tenths \div 10) \o "." \o ToString(tenths % 10)

\* _format_count(n)
format_countStrictMillion(n) ==
    IF n > 1000000 THEN FormatOneDecimal(n, 1000000) \o "M"
    ELSE IF n >= 1000 THEN FormatOneDecimal(n, 1000) \o "K"
    ELSE ToString(n)

format_count(n) ==
    IF n >= 1000000 THEN FormatOneDecimal(n, 1000000) \o "M"
    ELSE IF n >= 1000 THEN FormatOneDecimal(n, 1000) \o "K"
    ELSE ToString(n)

\* The counts formatted: every count up to the first thousands, the counts
\* around one million, the multiples of 50,000 up to three million (every
\* other one halfway between two one-decimal values), and the large counts
\* of the tests.
CountInputs ==
    (0..1300) \cup (999900..1000100) \cup {k * 50000 : k \in 20..60}
        \cup {15000, 234900000, 2000000000}

InitCount ==
    /\ StoreInit
    /\ credsCall = NoCredsCall
    /\ parseCall = NoParseCall
    /\ ageCall = NoAgeCall
    /\ BrowseIdle
    /\ \E n \in CountInputs : countCall = [called |-> FALSE, n |-> n, out |-> ""]

\* _format_count(n), a whole call
FormatCount ==
    /\ ~countCall.called
    /\ countCall' = [countCall EXCEPT !.called = TRUE,
                                      !.out = format_count(countCall.n)]
    /\ UNCHANGED <<file, now, last, pc, loc, credsCall, parseCall, ageCall>>
    /\ UNCHANGED browseVars

NextCount == FormatCount

SpecCount == InitCount /\ [][NextCount]_vars

(***************************************************************************)
(* Interactive browser (interactive.py). A str is the sequence of its      *)
(* characters. A step of the browser runs from one blocking read (the      *)
(* command prompt, the 'Tweet #' prompt, the pause) to the next.           *)
(***************************************************************************)
page_size == 10

RECURSIVE lstrip(_)
lstrip(s) == IF s # <<>> /\ Head(s) = " " THEN lstrip(Tail(s)) ELSE s

RECURSIVE rstrip(_)
rstrip(s) ==
    IF s # <<>> /\ s[Len(s)] = " " THEN rstrip(SubSeq(s, 1, Len(s) - 1)) ELSE s

\* str.strip()
strip(s) == rstrip(lstrip(s))

UpperCase == <<"B", "C", "N", "O", "P", "Q", "T", "X">>
LowerCase == <<"b", "c", "n", "o", "p", "q", "t", "x">>

\* str.lower()
lower(s) ==
    [i \in 1..Len(s) |->
        IF \E k \in 1..Len(UpperCase) : UpperCase[k] = s[i]
        THEN LowerCase[CHOOSE k \in 1..Len(UpperCase) : UpperCase[k] = s[i]]
        ELSE s[i]]

DecimalDigits == <<"0", "1", "2", "3", "4", "5", "6", "7", "8", "9">>

IsDecimal(c) == \E k \in 1..Len(DecimalDigits) : DecimalDigits[k] = c

\* str.isdigit(): no character but digits, and at least one; a superscript
\* digit is a digit to isdigit and is not a decimal to int
isdigit(s) == s # <<>> /\ \A i \in 1..Len(s) : IsDecimal(s[i]) \/ s[i] = "²"

RECURSIVE DecimalValue(_)
DecimalValue(s) ==
    IF s = <<>> THEN 0
    ELSE 10 * DecimalValue(SubSeq(s, 1, Len(s) - 1))
             + (CHOOSE k \in 0..9 : DecimalDigits[k + 1] = s[Len(s)])

\* int(s): None for ValueError. Blanks around the number and a sign before
\* it are accepted.
int(s) ==
    LET t == strip(s)
        signed == t # <<>> /\ t[1] \in {"+", "-"}
        digits == IF signed THEN Tail(t) ELSE t IN
    IF digits = <<>> \/ \E i \in 1..Len(digits) : ~IsDecimal(digits[i])
    THEN None
    ELSE Some(IF signed /\ t[1] = "-" THEN 0 - DecimalValue(digits)
              ELSE DecimalValue(digits))

\* total_pages = (len(tweets) + page_size - 1) // page_size
TotalPagesFloor(n) == n \div page_size + 1

TotalPages(n) == (n + page_size - 1) \div page_size

\* the local variables of a browse_tweets call just entered; at is where
\* the call is blocked, action the command letter of an index being asked
Frame(tweets) == [tweets |-> tweets, page |-> 0, total_pages |-> TotalPages(Len(tweets)), at |-> "prompt", action |-> ""]

Top(fs) == fs[Len(fs)]
Front(fs) == SubSeq(fs, 1, Len(fs) - 1)
SetTop(fs, fr) == [fs EXCEPT ![Len(fs)] = fr]

\* start = page * page_size; end = min(start + page_size, len(tweets))
Start(fr) == fr.page * page_size
End(fr) == Min(Start(fr) + page_size, Len(fr.tweets))

\* abs_idx = start + idx
AbsIdxPageOnly(start, idx) == idx

AbsIdx(start, idx) == start + idx

\* the str of a sequence of characters, as TLC prints it
RECURSIVE Chars(_)
Chars(s) == IF s = <<>> THEN "" ELSE Head(s) \o Chars(Tail(s))

\* what the browser puts on the terminal, or does to the outside
Ev(kind, text) == [kind |-> kind, text |-> text]

Notice(text) == Ev("notice", text)

\* the top of the loop: console.clear(), the page and the help bar drawn,
\* the call blocked at the command prompt
Loop(fs, o) ==
    [frames |-> SetTop(fs, [Top(fs) EXCEPT !.at = "prompt", !.action = ""]),
     exit |-> "none",
     out |-> o \o <<Ev("clear", ""),
                    Ev("render", ToString(Start(Top(fs))) \o ":"
                                     \o ToString(End(Top(fs))))>>]

\* _pause() entered: the call blocked at 'Press Enter to continue...'
Pause(fs, o) ==
    [frames |-> SetTop(fs, [Top(fs) EXCEPT !.at = "pause", !.action = ""]),
     exit |-> "none", out |-> o]

\* browse_tweets returns: to the loop of the session that called it, or to
\* the command line
Return(fs, o) ==
    IF Front(fs) = <<>> THEN [frames |-> <<>>, exit |-> "returned", out |-> o]
    ELSE Loop(Front(fs), o)

\* an exception leaves browse_tweets: the session that called it catches an
\* Exception (not a KeyboardInterrupt) as a failure to load the thread
RECURSIVE Raise(_, _, _)
Raise(fs, exc, o) ==
    IF Front(fs) = <<>> THEN [frames |-> <<>>, exit |-> exc, out |-> o]
    ELSE IF exc # "KeyboardInterrupt"
         THEN Pause(Front(fs), o \o <<Notice("Error loading thread: ")>>)
         ELSE Raise(Front(fs), exc, o)

\* browse_tweets(thread_tweets, ...) called from the session on top of fs
Enter(fs, thread_tweets, o) ==
    IF thread_tweets = <<>>
    THEN Loop(fs, o \o <<Ev("print", "No tweets to display.")>>)
    ELSE Loop(Append(SetTop(fs, [Top(fs) EXCEPT !.at = "thread"]),
                     Frame(thread_tweets)), o)

\* What the outside does when asked: save_bookmark, pyperclip.copy, the
\* write to the pipe of pbcopy or xclip, webbrowser.open and client.thread
\* each succeed or raise, webbrowser.open may also return False, and
\* client.thread returns the tweets of the thread.
Env(bookmark, pyperclip, popen, open, thread, thread_tweets) == [bookmark |-> bookmark, pyperclip |-> pyperclip, popen |-> popen, open |-> open, thread |-> thread, thread_tweets |-> thread_tweets]

NoEnv == Env("ok", "ok", "ok", "True", "ok", <<>>)

\* the thread of the post tweet: the post and k replies
ThreadOf(tweet, k) == <<tweet>> \o [i \in 1..k |-> 100 * tweet + i]

\* the outcomes that matter to the action on the post tweet; at MaxDepth
\* no further session is opened
Outcomes(action, tweet, depth) ==
    CASE action = "b" -> {[NoEnv EXCEPT !.bookmark = r] : r \in {"ok", "raise"}}
      [] action = "c" ->
             {[NoEnv EXCEPT !.pyperclip = r] : r \in {"ok", "raise"}}
             \cup {[NoEnv EXCEPT !.pyperclip = "raise", !.popen = "raise"]}
      [] action = "o" ->
             {[NoEnv EXCEPT !.open = r] : r \in {"True", "False", "raise"}}
      [] OTHER ->
             {[NoEnv EXCEPT !.thread = "raise"], NoEnv}
             \cup (IF depth < MaxDepth
                   THEN {[NoEnv EXCEPT !.thread_tweets = ThreadOf(tweet, k)] :
                             k \in {0, MaxReplies}}
                   ELSE {})

\* _copy_to_clipboard(text)
copy_to_clipboard(env) == env.pyperclip = "ok" \/ env.popen = "ok"

\* The command letter action with the index argument rest, from int(rest)
\* on, in the session on top of fs.
Indexed(fs, action, rest, env, has_client, o) ==
    LET fr == Top(fs)
        idx == int(rest) IN
    IF idx = None THEN Pause(fs, o \o <<Notice("Invalid tweet number.")>>)
    ELSE
    LET abs_idx == AbsIdx(Start(fr), idx[1]) IN
    IF abs_idx < 0 \/ abs_idx >= Len(fr.tweets)
    THEN Pause(fs, o \o <<Notice("Tweet #" \o ToString(idx[1])
                                     \o " not on this page.")>>)
    ELSE
    LET tweet == fr.tweets[abs_idx + 1]
        id == ToString(tweet) IN
    CASE action = "b" ->
             IF env.bookmark = "raise"
             THEN Raise(fs, "OSError", o \o <<Ev("save_bookmark", id)>>)
             ELSE Pause(fs, o \o <<Ev("save_bookmark", id),
                                   Notice("Bookmarked " \o id)>>)
      [] action = "c" ->
             Pause(fs, o \o <<Ev("copy", id),
                              Notice((IF copy_to_clipboard(env)
                                      THEN "Copied: " ELSE "Link: ") \o id)>>)
      [] action = "o" ->
             IF env.open = "raise"
             THEN Raise(fs, "Error", o \o <<Notice("Opening " \o id),
                                            Ev("webbrowser.open", id)>>)
             ELSE Pause(fs, o \o <<Notice("Opening " \o id),
                                   Ev("webbrowser.open", id)>>)
      [] OTHER ->
             IF ~has_client
             THEN Pause(fs, o \o <<Notice("Client not available for thread view.")>>)
             ELSE IF env.thread = "raise"
             THEN Pause(fs, o \o <<Ev("print", "Loading thread..."),
                                   Ev("client.thread", id),
                                   Notice("Error loading thread: ")>>)
             ELSE Enter(fs, env.thread_tweets,
                        o \o <<Ev("print", "Loading thread..."),
                               Ev("client.thread", id)>>)

\* the post a command with the index argument rest acts on, 0 when none
Target(fs, rest) ==
    LET idx == int(rest)
        abs_idx == IF idx = None THEN -1 ELSE AbsIdx(Start(Top(fs)), idx[1]) IN
    IF abs_idx < 0 \/ abs_idx >= Len(Top(fs).tweets) THEN 0
    ELSE Top(fs).tweets[abs_idx + 1]

Becomes(m) ==
    /\ frames' = m.frames
    /\ exit' = m.exit
    /\ out' = m.out

Step(at, raw, interrupt, env) == [at |-> at, raw |-> raw, interrupt |-> interrupt, env |-> env, before |-> frames]

Blocked(at) == exit = "none" /\ frames # <<>> /\ Top(frames).at = at

\* cmd = Prompt.ask(...).strip().lower()
Cmd(raw) == lower(strip(raw))

StartsIndexed(cmd) == cmd # <<>> /\ cmd[1] \in {"b", "c", "o", "t"}

NotBrowsing == <<file, now, last, pc, loc, credsCall, parseCall, ageCall, countCall>>

\* empty input or 'q' at the command prompt
Quit(raw) ==
    /\ Blocked("prompt")
    /\ Cmd(raw) \in {<<>>, <<"q">>}
    /\ Becomes(Return(frames, <<>>))
    /\ step' = Step("prompt", raw, "", NoEnv)
    /\ UNCHANGED <<client, NotBrowsing>>

\* KeyboardInterrupt or EOFError at the command prompt
PromptInterrupt(exc) ==
    /\ Blocked("prompt")
    /\ Becomes(Return(frames, <<>>))
    /\ step' = Step("prompt", <<>>, exc, NoEnv)
    /\ UNCHANGED <<client, NotBrowsing>>

\* 'n'
NextPage(raw) ==
    /\ Blocked("prompt")
    /\ Cmd(raw) = <<"n">>
    /\ LET fr == Top(frames) IN
       IF fr.page < fr.total_pages - 1
       THEN Becomes(Loop(SetTop(frames, [fr EXCEPT !.page = fr.page + 1]), <<>>))
       ELSE Becomes(Loop(frames, <<Notice("Already on last page.")>>))
    /\ step' = Step("prompt", raw, "", NoEnv)
    /\ UNCHANGED <<client, NotBrowsing>>

\* 'p'
PrevPage(raw) ==
    /\ Blocked("prompt")
    /\ Cmd(raw) = <<"p">>
    /\ LET fr == Top(frames) IN
       IF fr.page > 0
       THEN Becomes(Loop(SetTop(frames, [fr EXCEPT !.page = fr.page - 1]), <<>>))
       ELSE Becomes(Loop(frames, <<Notice("Already on first page.")>>))
    /\ step' = Step("prompt", raw, "", NoEnv)
    /\ UNCHANGED <<client, NotBrowsing>>

\* 'b', 'c', 'o' or 't' without an index: the index is asked for
AskIndex(raw) ==
    /\ Blocked("prompt")
    /\ LET cmd == Cmd(raw) IN
       /\ cmd \notin {<<>>, <<"q">>, <<"n">>, <<"p">>}
       /\ StartsIndexed(cmd)
       /\ strip(Tail(cmd)) = <<>>
       /\ Becomes([frames |-> SetTop(frames, [Top(frames) EXCEPT
                                                  !.at = "index",
                                                  !.action = cmd[1]]),
                   exit |-> "none", out |-> <<>>])
    /\ step' = Step("prompt", raw, "", NoEnv)
    /\ UNCHANGED <<client, NotBrowsing>>

\* 'b', 'c', 'o' or 't' followed by an index argument
IndexedCommand(raw) ==
    /\ Blocked("prompt")
    /\ LET cmd == Cmd(raw)
           rest == strip(Tail(cmd)) IN
       /\ cmd \notin {<<>>, <<"q">>, <<"n">>, <<"p">>}
       /\ StartsIndexed(cmd)
       /\ rest # <<>>
       /\ \E env \in Outcomes(cmd[1], Target(frames, rest), Len(frames)) :
              /\ Becomes(Indexed(frames, cmd[1], rest, env, client, <<>>))
              /\ step' = Step("prompt", raw, "", env)
    /\ UNCHANGED <<client, NotBrowsing>>

\* the answer to 'Tweet #', '0' when it is empty
IndexAnswer(raw) ==
    /\ Blocked("index")
    /\ LET rest == IF raw = <<>> THEN <<"0">> ELSE raw
           action == Top(frames).action IN
       \E env \in Outcomes(action, Target(frames, rest), Len(frames)) :
           /\ Becomes(Indexed(frames, action, rest, env, client, <<>>))
           /\ step' = Step("index", raw, "", env)
    /\ UNCHANGED <<client, NotBrowsing>>

\* KeyboardInterrupt or EOFError at 'Tweet #': nothing in browse_tweets
\* catches it
IndexInterrupt(exc) ==
    /\ Blocked("index")
    /\ Becomes(Raise(frames, exc, <<>>))
    /\ step' = Step("index", <<>>, exc, NoEnv)
    /\ UNCHANGED <<client, NotBrowsing>>

\* a command of digits: the detail view of the post
Detail(raw) ==
    /\ Blocked("prompt")
    /\ LET cmd == Cmd(raw)
           fr == Top(frames)
           idx == int(cmd) IN
       /\ cmd \notin {<<>>, <<"q">>, <<"n">>, <<"p">>}
       /\ ~StartsIndexed(cmd)
       /\ isdigit(cmd)
       /\ IF idx = None THEN Becomes(Raise(frames, "ValueError", <<>>))
          ELSE LET abs_idx == AbsIdx(Start(fr), idx[1]) IN
               IF 0 <= abs_idx /\ abs_idx < Len(fr.tweets)
               THEN Becomes(Pause(frames,
                                  <<Ev("clear", ""),
                                    Ev("detail", ToString(fr.tweets[abs_idx + 1]))>>))
               ELSE Becomes(Pause(frames,
                                  <<Notice("Tweet #" \o ToString(idx[1])
                                               \o " not on this page.")>>))
    /\ step' = Step("prompt", raw, "", NoEnv)
    /\ UNCHANGED <<client, NotBrowsing>>

\* any other command
Unknown(raw) ==
    /\ Blocked("prompt")
    /\ LET cmd == Cmd(raw) IN
       /\ cmd \notin {<<>>, <<"q">>, <<"n">>, <<"p">>}
       /\ ~StartsIndexed(cmd)
       /\ ~isdigit(cmd)
       /\ Becomes(Pause(frames, <<Notice("Unknown command: " \o Chars(cmd))>>))
    /\ step' = Step("prompt", raw, "", NoEnv)
    /\ UNCHANGED <<client, NotBrowsing>>

\* Enter at 'Press Enter to continue...'
Acknowledge ==
    /\ Blocked("pause")
    /\ Becomes(Loop(frames, <<>>))
    /\ step' = Step("pause", <<>>, "", NoEnv)
    /\ UNCHANGED <<client, NotBrowsing>>

\* KeyboardInterrupt or EOFError at 'Press Enter to continue...': passed over
PauseInterrupt(exc) ==
    /\ Blocked("pause")
    /\ Becomes(Loop(frames, <<>>))
    /\ step' = Step("pause", <<>>, exc, NoEnv)
    /\ UNCHANGED <<client, NotBrowsing>>

\* What the user types at the command prompt and at 'Tweet #'.
PromptInputs ==
    {<<>>, <<" ">>, <<"q">>, <<" ", "Q", " ">>, <<"q", "q">>,
     <<"n">>, <<"N", " ">>, <<"n", "n">>, <<"p">>, <<"P">>,
     <<"b">>, <<"c">>, <<"o">>, <<"t">>, <<"T", " ">>,
     <<"b", "0">>, <<"B", " ", "1">>, <<"b", "-", "1">>, <<"b", "1", "2">>,
     <<"b", "9", "9">>, <<"b", "x">>, <<"b", "²">>,
     <<"c", "0">>, <<"c", "9", "9">>, <<"c", "o">>,
     <<"o", "0">>, <<"o", "1", "0">>, <<"o", "x">>,
     <<"t", "0">>, <<"t", "1">>, <<"t", "9", "9">>, <<"t", "x">>,
     <<"0">>, <<"9">>, <<"1", "2">>, <<"9", "9">>, <<"²">>,
     <<"-", "1">>, <<"x">>, <<"?">>}

IndexInputs ==
    {<<>>, <<"0">>, <<" ", "3">>, <<"-", "1">>, <<"1", "2">>, <<"9", "9">>,
     <<"x">>, <<" ">>}

Interrupts == {"KeyboardInterrupt", "EOFError"}

\* the list browse_tweets is started on: posts 1..n
Posts(n) == [i \in 1..n |-> i]

TweetLists == {Posts(n) : n \in {0, 1, page_size, page_size + 1, MaxTweets}}

\* browse_tweets(tweets, client=...) called from the command line: on an
\* empty list it prints 'No tweets to display.' and returns
InitBrowse ==
    /\ StoreInit
    /\ credsCall = NoCredsCall
    /\ parseCall = NoParseCall
    /\ ageCall = NoAgeCall
    /\ countCall = NoCountCall
    /\ client \in BOOLEAN
    /\ step = NoStep
    /\ \E tweets \in TweetLists :
           LET m == IF tweets = <<>>
                    THEN [frames |-> <<>>, exit |-> "returned",
                          out |-> <<Ev("print", "No tweets to display.")>>]
                    ELSE Loop(<<Frame(tweets)>>, <<>>) IN
           /\ frames = m.frames
           /\ exit = m.exit
           /\ out = m.out

NextBrowse ==
    \/ \E raw \in PromptInputs : Quit(raw)
    \/ \E exc \in Interrupts : PromptInterrupt(exc)
    \/ \E raw \in PromptInputs : NextPage(raw)
    \/ \E raw \in PromptInputs : PrevPage(raw)
    \/ \E raw \in PromptInputs : AskIndex(raw)
    \/ \E raw \in PromptInputs : IndexedCommand(raw)
    \/ \E raw \in IndexInputs : IndexAnswer(raw)
    \/ \E exc \in Interrupts : IndexInterrupt(exc)
    \/ \E raw \in PromptInputs : Detail(raw)
    \/ \E raw \in PromptInputs : Unknown(raw)
    \/ Acknowledge
    \/ \E exc \in Interrupts : PauseInterrupt(exc)

SpecBrowse == InitBrowse /\ [][NextBrowse]_vars

(***************************************************************************)
(* Properties of the bookmark store.                                       *)
(***************************************************************************)
Stored == load_bookmarks(file)

IdsOf(bookmarks) == {bookmarks[i].tweet_id : i \in 1..Len(bookmarks)}

\* C1: from an empty store, after any sequence of save_bookmark and
\* remove_bookmark calls no two stored records share a tweet_id, and a
\* save_bookmark call whose tweet_id was already stored leaves the stored
\* list as it was (no record added, the existing record untouched).
C1_UniqueIds ==
    /\ \A i, j \in 1..Len(Stored) :
           Stored[i].tweet_id = Stored[j].tweet_id => i = j
    /\ (last.op = "save" /\ last.tweet_id \in IdsOf(last.before))
           => Stored = last.before

\* a second save of a stored id, with another author, url and text and at a
\* later time, has returned
C1_Witness ==
    /\ last.op = "save"
    /\ Len(Stored) = 2
    /\ \E i \in 1..Len(last.before) :
           /\ last.before[i].tweet_id = last.tweet_id
           /\ last.before[i].author # last.author
           /\ last.before[i].url # last.url
           /\ last.before[i].text # Take(last.text, TruncLen)
           /\ last.before[i].saved_at # IsoFormat(last.at)

\* C2: remove_bookmark(id) returns true exactly when a record of that id was
\* stored before the call; afterwards the store is the previous list without
\* the records of that id, the others in their previous order: a present id
\* shrinks the store by exactly one, an absent id leaves it unchanged.
C2_Remove ==
    last.op = "remove" =>
        LET Keep(b) == b.tweet_id # last.tweet_id IN
        /\ last.ret <=> (last.tweet_id \in IdsOf(last.before))
        /\ Stored = SelectSeq(last.before, Keep)
        /\ last.ret => Len(Stored) = Len(last.before) - 1
        /\ ~last.ret => Stored = last.before

\* the first of two stored records has been removed
C2_Witness ==
    /\ last.op = "remove"
    /\ last.ret
    /\ Len(last.before) = 2
    /\ last.before[1].tweet_id = last.tweet_id
    /\ Stored = <<last.before[2]>>

\* C3: save_bookmark with a tweet_id not yet stored appends exactly one
\* record at the end of the store and leaves every earlier record as it was;
\* the new record's text is the first 280 characters of the supplied text
\* (exactly 280 when the text is longer, the whole text otherwise); every
\* stored record's text has at most 280 characters.
C3_Append ==
    /\ (last.op = "save" /\ last.tweet_id \notin IdsOf(last.before)) =>
           /\ Len(Stored) = Len(last.before) + 1
           /\ SubSeq(Stored, 1, Len(last.before)) = last.before
           /\ LET new == Stored[Len(Stored)] IN
              /\ new.tweet_id = last.tweet_id
              /\ new.author = last.author
              /\ new.url = last.url
              /\ Len(last.text) > 280 => Len(new.text) = 280
              /\ Len(last.text) <= 280 => new.text = last.text
              /\ \A i \in 1..Len(new.text) : new.text[i] = last.text[i]
    /\ \A i \in 1..Len(Stored) : Len(Stored[i].text) <= 280

\* a text of more than 280 characters has been saved behind an earlier record
C3_Witness ==
    /\ last.op = "save"
    /\ last.tweet_id \notin IdsOf(last.before)
    /\ Len(last.text) > 280
    /\ Len(last.before) >= 1
    /\ Len(Stored) = Len(last.before) + 1

\* C4: the bookmark file is rewritten atomically: at every point of a
\* save_bookmark or remove_bookmark call, also after a kill between the steps
\* of the write, the file holds one whole list, never no bytes or a part.
C4_AtomicRewrite == file.exists => file.complete

(***************************************************************************)
(* Properties of the credential store.                                     *)
(***************************************************************************)
AbsentKeys(f) == RequiredKeySet \ DOMAIN f.data

Named(message) == {message.missing[i] : i \in 1..Len(message.missing)}

\* C5: load_creds on a credentials file in which any of the five required
\* keys is absent ends in SystemExit, returns no credentials, and its message
\* names every missing key, not only the first; credentials are returned
\* only when all five keys are present.
C5_MissingKeysFatal ==
    (credsCall.called /\ credsCall.file.exists) =>
        /\ AbsentKeys(credsCall.file) # {} =>
               /\ credsCall.out.raised
               /\ credsCall.out.creds = None
               /\ credsCall.out.message.head = "Missing keys"
               /\ AbsentKeys(credsCall.file) \subseteq Named(credsCall.out.message)
        /\ ~credsCall.out.raised =>
               /\ AbsentKeys(credsCall.file) = {}
               /\ credsCall.out.creds # None

\* a file with the second and the last key absent has been loaded
C5_Witness ==
    /\ credsCall.called
    /\ credsCall.file.exists
    /\ AbsentKeys(credsCall.file) = {"consumer_secret", "access_token_secret"}
    /\ credsCall.out.raised
    /\ credsCall.out.message.missing = <<"consumer_secret", "access_token_secret">>

(***************************************************************************)
(* Properties of the response normalizer.                                  *)
(***************************************************************************)
Resp == parseCall.response
Out == parseCall.out
Primary == Resp.data.items

\* the users and the referenced posts the response includes
IncludedList(key) ==
    IF Resp.includes # None /\ key \in DOMAIN Resp.includes[1]
    THEN Resp.includes[1][key] ELSE <<>>

IncludedUsers == {IncludedList("users")[i] : i \in 1..Len(IncludedList("users"))}
IncludedPosts == {IncludedList("tweets")[i] : i \in 1..Len(IncludedList("tweets"))}

UsersWithId(author_id) == {u \in IncludedUsers : author_id = Some(u.id)}
PostsWithId(id) == {o \in IncludedPosts : o.id = id}

\* the handle and name a post by author_id is shown with
HandlesOf(author_id) ==
    IF UsersWithId(author_id) = {} THEN {"unknown"}
    ELSE {u.username : u \in UsersWithId(author_id)}

NamesOf(author_id) ==
    IF UsersWithId(author_id) = {} THEN {"Unknown"}
    ELSE {u.name : u \in UsersWithId(author_id)}

RefsOf(t) == IF t.referenced_tweets = None THEN <<>> ELSE t.referenced_tweets[1]

HasRef(t, kind) == \E j \in 1..Len(RefsOf(t)) : RefsOf(t)[j].type = kind

\* the posts the first reference of type kind of t resolves to
ResolvedRef(t, kind) ==
    IF ~HasRef(t, kind) THEN {}
    ELSE LET j == CHOOSE j \in 1..Len(RefsOf(t)) :
                      /\ RefsOf(t)[j].type = kind
                      /\ \A k \in 1..(j - 1) : RefsOf(t)[k].type # kind
         IN PostsWithId(RefsOf(t)[j].id)

Counters(tw) == <<tw.likes, tw.retweets, tw.replies, tw.quotes>>

CountersOf(public_metrics) ==
    LET m == IF public_metrics = None THEN EmptyDict ELSE public_metrics[1]
        At(k) == IF k \in DOMAIN m THEN m[k] ELSE 0 IN
    <<At("like_count"), At("retweet_count"), At("reply_count"), At("quote_count")>>

\* C6: _parse_tweets returns exactly one Post per primary raw post, in the
\* order of the primary list, the i-th Post built from the i-th primary post
\* (its conversation id and reference flags, and its id unless it is a
\* retweet); no primary data gives the empty list, a single object one Post.
C6_OnePostPerPrimary ==
    parseCall.called =>
        /\ ~Out.raised
        /\ Resp.data.kind = "none" => Out.tweets = <<>>
        /\ Resp.data.kind = "single" => Len(Out.tweets) = 1
        /\ Resp.data.kind = "list" => Len(Out.tweets) = Len(Primary)
        /\ \A i \in 1..Len(Out.tweets) :
               LET t == Primary[i]
                   tw == Out.tweets[i] IN
               /\ tw.conversation_id =
                      IF t.conversation_id = None THEN None
                      ELSE Some(ToString(t.conversation_id[1]))
               /\ tw.is_retweet = HasRef(t, "retweeted")
               /\ tw.is_reply = HasRef(t, "replied_to")
               /\ tw.is_quote = HasRef(t, "quoted")
               /\ ~tw.is_retweet => tw.id = ToString(t.id)

\* a list of two different primary posts has been normalized
C6_Witness ==
    /\ parseCall.called
    /\ Resp.data.kind = "list"
    /\ Len(Primary) = 2
    /\ Primary[1].id # Primary[2].id
    /\ Len(Out.tweets) = 2
    /\ Out.tweets[1].id # Out.tweets[2].id

\* C7: a primary post with a reference of type 'retweeted' gives a Post with
\* is_retweet true and retweeted_by the handle of the retweeting account;
\* when the first such reference is found in the referenced posts, the
\* Post's id, text, author handle and name and (where the original carries
\* metrics) counters are the original post's, and when it is not found they
\* are the wrapper's own; without such a reference is_retweet is false and
\* retweeted_by is unset.
C7_RetweetIsOriginal ==
    parseCall.called =>
        \A i \in 1..Len(Out.tweets) :
            LET t == Primary[i]
                tw == Out.tweets[i]
                origs == ResolvedRef(t, "retweeted") IN
            IF ~HasRef(t, "retweeted")
            THEN ~tw.is_retweet /\ tw.retweeted_by = None
            ELSE /\ tw.is_retweet
                 /\ tw.retweeted_by # None
                 /\ tw.retweeted_by[1] \in HandlesOf(t.author_id)
                 /\ origs = {} =>
                        /\ tw.id = ToString(t.id)
                        /\ tw.text = full_text(t)
                        /\ tw.author_handle \in HandlesOf(t.author_id)
                        /\ tw.author_name \in NamesOf(t.author_id)
                        /\ Counters(tw) = CountersOf(t.public_metrics)
                 /\ \A o \in origs :
                        /\ tw.id = ToString(o.id)
                        /\ tw.text = full_text(o)
                        /\ tw.author_handle \in HandlesOf(o.author_id)
                        /\ tw.author_name \in NamesOf(o.author_id)
                        /\ TruthyColl(o.public_metrics) =>
                               Counters(tw) = CountersOf(o.public_metrics)

\* C8: the permalink of every Post is https://x.com/<author_handle>/status/<id>
\* of the Post's own handle and id, and for a retweet whose original is found
\* in the referenced posts both belong to the original: never the original's
\* id under the wrapper's handle, and never the wrapper's id.
C8_PermalinkOfOriginal ==
    parseCall.called =>
        \A i \in 1..Len(Out.tweets) :
            LET t == Primary[i]
                tw == Out.tweets[i] IN
            /\ Url(tw) = <<"https://x.com/", tw.author_handle, "/status/", tw.id>>
            /\ \A o \in ResolvedRef(t, "retweeted") :
                   \E h \in HandlesOf(o.author_id) :
                       Url(tw) = <<"https://x.com/", h, "/status/", ToString(o.id)>>

\* the URL entities of a primary post, and the form each is shown in
UrlEntitiesOf(t) ==
    IF t.entities # None /\ "urls" \in DOMAIN t.entities[1]
    THEN t.entities[1]["urls"] ELSE <<>>

FormOf(u) ==
    IF "expanded_url" \in DOMAIN u THEN u["expanded_url"]
    ELSE IF "url" \in DOMAIN u THEN u["url"] ELSE <<>>

OffPlatform(url) ==
    \A a, b \in 1..Len(url) : SubSeq(url, a, b) \notin {TwitterCom, XCom}

C10_NeverRaises ==
    parseCall.called =>
        /\ ~Out.raised
        /\ Resp.data.kind # "none" => Len(Out.tweets) = Len(Primary)
        /\ \A i \in 1..Len(Out.tweets) :
               LET t == Primary[i]
                   tw == Out.tweets[i]
                   own == ResolvedRef(t, "retweeted") = {} IN
               /\ (own /\ UsersWithId(t.author_id) = {}) =>
                      tw.author_handle = "unknown" /\ tw.author_name = "Unknown"
               /\ (own /\ t.public_metrics = None) => Counters(tw) = <<0, 0, 0, 0>>
               /\ (own /\ t.created_at = None) => tw.created_at = None
               /\ t.referenced_tweets = None =>
                      /\ ~tw.is_retweet /\ ~tw.is_reply /\ ~tw.is_quote
                      /\ tw.retweeted_by = None
               /\ ResolvedRef(t, "quoted") = {} => tw.quoted_tweet = None
               /\ t.entities = None => tw.urls = <<>>
               /\ t.conversation_id = None => tw.conversation_id = None

\* a post with nothing but its id, text and author id, in a response without
\* includes, has been normalized
C10_Witness ==
    /\ parseCall.called
    /\ Resp.includes = None
    /\ Len(Primary) = 1
    /\ Primary[1].public_metrics = None
    /\ Primary[1].referenced_tweets = None
    /\ Primary[1].entities = None
    /\ Primary[1].created_at = None
    /\ Primary[1].note_tweet = None
    /\ Primary[1].conversation_id = None
    /\ Len(Out.tweets) = 1
    /\ Out.tweets[1].author_handle = "unknown"

\* C11: when the first 'quoted' reference of a primary post is found in the
\* referenced posts, the Post's quoted_tweet is a nested Post with the quoted
\* post's own id, text, timestamp and counters (likes, retweets, replies and
\* quotes), its author's handle and name or 'unknown'/'Unknown', and it is
\* never expanded further: its quoted_tweet is unset and its retweet, reply
\* and quote flags are false.
C11_QuotedNested ==
    parseCall.called =>
        \A i \in 1..Len(Out.tweets) :
            \A q \in ResolvedRef(Primary[i], "quoted") :
                LET tw == Out.tweets[i] IN
                /\ tw.quoted_tweet # None
                /\ LET n == tw.quoted_tweet[1] IN
                   /\ n.id = ToString(q.id)
                   /\ n.text = full_text(q)
                   /\ n.created_at = q.created_at
                   /\ Counters(n) = CountersOf(q.public_metrics)
                   /\ n.author_handle \in HandlesOf(q.author_id)
                   /\ n.author_name \in NamesOf(q.author_id)
                   /\ n.quoted_tweet = None
                   /\ ~n.is_retweet /\ ~n.is_reply /\ ~n.is_quote

\* the whole seconds between the timestamp and the clock of the age call
Elapsed == IntTotalSeconds(Minus(ageCall.now, ageCall.created_at[1]))

\* C12: the age of a post whose timestamp lies s >= 0 whole seconds back is
\* '<s>s' when s < 60, '<s div 60>m' when s div 60 < 60, '<s div 3600>h'
\* when s div 3600 < 24, '<s div 86400>d' when s div 86400 < 30, and the
\* 'Mon DD' date of the timestamp otherwise; without a timestamp it is ''.
C12_AgeBuckets ==
    ageCall.called =>
        IF ageCall.created_at = None THEN ageCall.out = ""
        ELSE LET s == Elapsed
                 c == ageCall.created_at[1] IN
             s >= 0 =>
                 ageCall.out =
                     IF s < 60 THEN ToString(s) \o "s"
                     ELSE IF s \div 60 < 60 THEN ToString(s \div 60) \o "m"
                     ELSE IF s \div 3600 < 24 THEN ToString(s \div 3600) \o "h"
                     ELSE IF s \div 86400 < 30 THEN ToString(s \div 86400) \o "d"
                     ELSE MonthAbbr[c.month] \o " "
                              \o (IF c.day < 10 THEN "0" ELSE "")
                              \o ToString(c.day)

\* the age of a post written exactly seven days before the clock is '7d'
C12_Witness ==
    /\ ageCall.called
    /\ ageCall.created_at # None
    /\ Elapsed = 7 * 86400
    /\ ageCall.out = "7d"

\* the one-decimal strings of the values within half a tenth of n / d,
\* followed by the suffix
RoundedOneDecimal(n, d, suffix) ==
    LET unit == d \div 10 IN
    {ToString(t \div 10) \o "." \o ToString(t % 10) \o suffix :
         t \in {t \in (n \div unit)..(n \div unit + 1) :
                    /\ 2 * (n - t * unit) <= unit
                    /\ 2 * (t * unit - n) <= unit}}

\* C13: _format_count(n) is the plain decimal string of n for 0 <= n < 1000,
\* n / 1000 rounded to one decimal followed by 'K' for 1000 <= n < 1,000,000
\* (so 999999 gives '1000.0K', never an 'M' value), and n / 1,000,000
\* rounded to one decimal followed by 'M' from 1,000,000 on.
C13_FormatCount ==
    countCall.called =>
        LET n == countCall.n IN
        /\ (0 <= n /\ n < 1000) => countCall.out = ToString(n)
        /\ (1000 <= n /\ n < 1000000) =>
               countCall.out \in RoundedOneDecimal(n, 1000, "K")
        /\ n >= 1000000 => countCall.out \in RoundedOneDecimal(n, 1000000, "M")
        /\ n = 999999 => countCall.out = "1000.0K"

\* one million itself has been formatted, as '1.0M'
C13_Witness ==
    /\ countCall.called
    /\ countCall.n = 1000000
    /\ countCall.out = "1.0M"

(***************************************************************************)
(* Properties of the interactive browser. step.before holds the sessions   *)
(* as they were when the last input was read; the session that read it is  *)
(* the last of them.                                                       *)
(***************************************************************************)
Stepped == step.at # "start"

\* the session that read the last input, before and (if it still runs) after
Reader == Top(step.before)
Survives == Len(frames) >= Len(step.before)
ReaderNow == frames[Len(step.before)]

\* the last input was the command cmd, typed at the command prompt
Typed(cmd) == step.at = "prompt" /\ step.interrupt = "" /\ Cmd(step.raw) = cmd

\* The index command resolved by the last step: the letter and the index
\* argument of 'b', 'c', 'o' or 't' (given with the command or at
\* 'Tweet #'), "detail" for a command of decimal digits, "" for any other.
ResolvedLetter ==
    IF step.interrupt # "" THEN ""
    ELSE IF step.at = "index" THEN Reader.action
    ELSE IF step.at # "prompt" THEN ""
    ELSE LET cmd == Cmd(step.raw) IN
         IF cmd \in {<<>>, <<"q">>, <<"n">>, <<"p">>} THEN ""
         ELSE IF cmd[1] \in {"b", "c", "o", "t"}
         THEN (IF strip(Tail(cmd)) = <<>> THEN "" ELSE cmd[1])
         ELSE IF \A i \in 1..Len(cmd) : IsDecimal(cmd[i]) THEN "detail"
         ELSE ""

ResolvedArg ==
    IF step.at = "index" THEN (IF step.raw = <<>> THEN <<"0">> ELSE step.raw)
    ELSE IF ResolvedLetter = "detail" THEN Cmd(step.raw)
    ELSE strip(Tail(Cmd(step.raw)))

\* what each index command does to the post
EffectOf(letter) ==
    CASE letter = "b" -> "save_bookmark"
      [] letter = "c" -> "copy"
      [] letter = "o" -> "webbrowser.open"
      [] letter = "t" -> "client.thread"
      [] OTHER -> "detail"

Effects == {"save_bookmark", "copy", "webbrowser.open", "client.thread", "detail"}

Shown(kinds) == {i \in 1..Len(out) : out[i].kind \in kinds}

\* C14: in every session the page is at least 0 and at most total_pages - 1,
\* total_pages is the number of posts divided by the page size and rounded
\* up, and the window of the page is not empty; a session starts on page
\* 0; 'n' moves the page up by exactly one unless it is the last, 'p' down
\* by exactly one unless it is the first, and no other input moves it.
C14_PageInRange ==
    /\ \A i \in 1..Len(frames) :
           LET fr == frames[i] IN
           /\ 0 <= fr.page /\ fr.page <= fr.total_pages - 1
           /\ (fr.total_pages - 1) * page_size < Len(fr.tweets)
           /\ Len(fr.tweets) <= fr.total_pages * page_size
           /\ fr.page * page_size < Len(fr.tweets)
    /\ ~Stepped => \A i \in 1..Len(frames) : frames[i].page = 0
    /\ (Stepped /\ Len(frames) > Len(step.before)) => Top(frames).page = 0
    /\ (Stepped /\ Survives) =>
           ReaderNow.page =
               IF Typed(<<"n">>)
               THEN (IF Reader.page = Reader.total_pages - 1 THEN Reader.page
                     ELSE Reader.page + 1)
               ELSE IF Typed(<<"p">>)
               THEN (IF Reader.page = 0 THEN Reader.page ELSE Reader.page - 1)
               ELSE Reader.page

\* 'n' on the first of three pages has led to the second
C14_Witness ==
    /\ Stepped
    /\ Typed(<<"n">>)
    /\ Reader.total_pages = 3
    /\ Reader.page = 0
    /\ frames # <<>>
    /\ Top(frames).page = 1

\* C15: a session ends exactly when its command prompt reads an empty
\* input or 'q' (in either case, blanks around it aside) or is interrupted:
\* after any other input, at the command prompt, at 'Tweet #' or at the
\* pause, the session is still running, and after these it has returned.
C15_EndsOnlyOnQuit ==
    Stepped =>
        LET quits == \/ Typed(<<>>)
                     \/ Typed(<<"q">>)
                     \/ step.at = "prompt" /\ step.interrupt # "" IN
        /\ quits => (~Survives /\ exit \in {"none", "returned"})
        /\ ~quits => (Survives /\ exit = "none")

\* C16: an interrupt (KeyboardInterrupt or EOFError) at the command prompt,
\* at 'Tweet #' or at the pause ends the session that was reading, and only
\* that one: the call returns as on 'q', the sessions around it keep
\* running, the one directly around it back at its prompt on its page with
\* no notice shown.
C16_InterruptEndsLoop ==
    (Stepped /\ step.interrupt # "") =>
        /\ exit \in {"none", "returned"}
        /\ Len(frames) = Len(step.before) - 1
        /\ frames # <<>> =>
               /\ Top(frames).at = "prompt"
               /\ Top(frames).page = step.before[Len(frames)].page
               /\ Shown({"notice"}) = {}

\* C17: a notice or a detail view is never followed by a redraw in the same
\* step: once it is shown the session is blocked in the pause, and the
\* screen is cleared and the page drawn again only by the step that
\* acknowledges it.
C17_NoticeThenPause ==
    \A i \in Shown({"notice", "detail"}) :
        /\ \A j \in (i + 1)..Len(out) : out[j].kind \notin {"clear", "render"}
        /\ exit = "none" => (frames # <<>> /\ Top(frames).at = "pause")

\* C18: 'b', 'c', 'o', 't' with an index idx, or idx alone, on a page that
\* starts at offset start acts on the post at position start + idx of the
\* list; when start + idx is outside the list, or the argument of 'b', 'c',
\* 'o', 't' is not an integer, one error notice is shown, nothing is done
\* to any post, and the session stays on its page, blocked in the pause.
C18_IndexResolution ==
    (Stepped /\ ResolvedLetter # "") =>
        LET idx == int(ResolvedArg)
            start == Reader.page * page_size
            valid == /\ idx # None
                     /\ 0 <= start + idx[1]
                     /\ start + idx[1] < Len(Reader.tweets) IN
        IF valid
        THEN (ResolvedLetter = "t" => client) =>
                 \E i \in Shown({EffectOf(ResolvedLetter)}) :
                     /\ out[i].text = ToString(Reader.tweets[start + idx[1] + 1])
                     /\ Shown(Effects) = {i}
        ELSE /\ Shown(Effects) = {}
             /\ Cardinality(Shown({"notice"})) = 1
             /\ exit = "none"
             /\ Len(frames) = Len(step.before)
             /\ ReaderNow.page = Reader.page
             /\ ReaderNow.at = "pause"

\* 'b 1' on the second page has bookmarked post 12, the post at 10 + 1
C18_Witness ==
    /\ Stepped
    /\ ResolvedLetter = "b"
    /\ ResolvedArg = <<"1">>
    /\ Reader.page = 1
    /\ \E i \in Shown({"save_bookmark"}) : out[i].text = "12"

\* C19: when a session opened with 't' ends, the session that opened it is
\* the innermost one again, with the list and on the page it had, and so
\* are all sessions around it.
C19_ReturnToParent ==
    (Stepped /\ Len(step.before) > 1 /\ ~Survives) =>
        /\ exit = "none"
        /\ Len(frames) = Len(step.before) - 1
        /\ \A i \in 1..Len(frames) :
               /\ frames[i].tweets = step.before[i].tweets
               /\ frames[i].page = step.before[i].page
               /\ frames[i].total_pages = step.before[i].total_pages
        /\ Top(frames).at \in {"prompt", "pause"}

\* C20: when copying ('c') or opening in the browser ('o') fails, the
\* failure stays inside the step: the session keeps running on the same
\* page, blocked in the pause after a notice that shows the link.
C20_SideActionFailureLocal ==
    (/\ Stepped
     /\ ResolvedLetter \in {"c", "o"}
     /\ Shown({EffectOf(ResolvedLetter)}) # {}
     /\ \/ ResolvedLetter = "c" /\ step.env.pyperclip = "raise"
                                /\ step.env.popen = "raise"
        \/ ResolvedLetter = "o" /\ step.env.open \in {"False", "raise"}) =>
        /\ exit = "none"
        /\ Len(frames) = Len(step.before)
        /\ ReaderNow.page = Reader.page
        /\ ReaderNow.at = "pause"
        /\ Shown({"notice"}) # {}
        /\ ResolvedLetter = "c" =>
               \E i \in Shown({"notice"}) :
                   out[i].text = "Link: " \o ToString(Target(step.before, ResolvedArg))

\* C21: an index accepted by 'b', 'c', 'o', 't' or given alone refers to a
\* post of the page on display: the post acted on lies at a position from
\* start up to, not including, min(start + page_size, len), and an index
\* below 0 or past the last post of the page is turned down with the
\* notice 'Tweet #idx not on this page.' and nothing is done to any post.
C21_IndexOnPage ==
    (Stepped /\ ResolvedLetter # "") =>
        LET idx == int(ResolvedArg)
            start == Reader.page * page_size
            end == Min(start + page_size, Len(Reader.tweets)) IN
        /\ \A i \in Shown(Effects) :
               \E pos \in start..(end - 1) :
                   out[i].text = ToString(Reader.tweets[pos + 1])
        /\ (idx # None /\ (idx[1] < 0 \/ start + idx[1] >= end)) =>
               /\ Shown(Effects) = {}
               /\ \E i \in Shown({"notice"}) :
                      out[i].text = "Tweet #" \o ToString(idx[1])
                                        \o " not on this page."

(***************************************************************************)
(* Properties of two save_bookmark calls running side by side.             *)
(***************************************************************************)
\* both calls have returned (neither raised on a file it could not parse)
BothReturned == \A p \in Procs : pc[p] = "idle" /\ loc[p].op = "returned"

\* the tweet ids of the two calls; the call of p read the record of q
RaceIds == {loc[p].tweet_id : p \in Procs}
ReadTheOther(p) == \E q \in Procs \ {p} : loc[q].tweet_id \in IdsOf(loc[p].old)

\* no two records of the list share a tweet_id
OnePerId(bookmarks) ==
    \A i, j \in 1..Len(bookmarks) :
        bookmarks[i].tweet_id = bookmarks[j].tweet_id => i = j

\* The original statement of C22: once both calls have returned the file
\* is one whole list that holds the records of both tweet ids, with at most
\* one record per tweet_id.
C22_NoLostSave ==
    BothReturned =>
        /\ file.exists /\ file.complete
        /\ RaceIds \subseteq IdsOf(file.content)
        /\ OnePerId(file.content)

\* C22: once both calls have returned, the list written last holds the
\* records stored before the calls, in their order, followed by new records
\* only, with at most one record per tweet_id and the record of at least
\* one of the two calls; it holds both new records, in a readable file, if
\* one call read the file after the other had written it, and only one of
\* them if neither call read the other's record.
C22_LastWriterWins ==
    BothReturned =>
        LET content == file.content IN
        /\ file.exists
        /\ OnePerId(content)
        /\ Len(content) >= Len(last.before)
        /\ SubSeq(content, 1, Len(last.before)) = last.before
        /\ IdsOf(content) \subseteq IdsOf(last.before) \cup RaceIds
        /\ IdsOf(content) \cap RaceIds # {}
        /\ (\E p \in Procs : ReadTheOther(p)) =>
               (file.complete /\ RaceIds \subseteq IdsOf(content))
        /\ (\A p \in Procs : ~ReadTheOther(p)) =>
               Cardinality(IdsOf(content) \cap RaceIds) = 1

\* both calls read the one bookmark stored before them, both have written
\* and returned, and the record of one of them is not in the file
C22_Witness ==
    /\ BothReturned
    /\ Len(last.before) = 1
    /\ \A p \in Procs : loc[p].old = last.before
    /\ file.complete
    /\ Len(file.content) = 2
    /\ \E p \in Procs : loc[p].tweet_id \notin IdsOf(file.content)

====
